---------------------------- MODULE Spec2Model ----------------------------
(***************************************************************************)
(* Model of nonebot-plugin-multincm:                                       *)
(*   - msg_cache.py    CacheManager, the expiring cache                    *)
(*   - data_source.py  ncm_request, the search/detail calls and login()    *)
(*   - providers/song.py  Song.from_id and SongSearcher                    *)
(*                                                                         *)
(* The parts share no state, so each has its own specification             *)
(* (SpecCache, SpecLogin, SpecRemote); the variables of the other parts    *)
(* stay at their idle values.  SpecSweep and SpecIter take the cache's     *)
(* sweep and its generators step by step.                                  *)
(***************************************************************************)
EXTENDS Integers, Sequences, FiniteSets, TLC

VARIABLES
    cache,      \* the dict of a CacheManager: key -> <<create_t, value>>
    now,        \* what time.time() returns
    last,       \* the last cache operation: its arguments and what it returned
    wlog        \* per key, the writes since it was last popped: <<t_prev, t_last, v_last>>

cacheVars == <<cache, now, last, wlog>>

VARIABLES
    pc,         \* where login() is: "idle", "start" (an attempt begins), "verify", "done"
    disk,       \* SESSION_FILE: "none", or the kind of blob it holds
    conf,       \* the credentials of config, and whether the remote accepts them
    session,    \* pyncm's current session
    retry,      \* the retry argument of the running login() call
    paths,      \* the path each attempt took
    verifs,     \* how each attempt's verification ended
    calls,      \* the remote calls made, in order
    status,     \* what the last GetCurrentLoginStatus call did
    outcome,    \* how login() ended
    disk0,      \* SESSION_FILE when login() was called
    flaky       \* a remote call failed though the credentials or session were valid

loginVars == <<pc, disk, conf, session, retry, paths, verifs, calls, status,
               outcome, disk0, flaky>>

VARIABLES
    limit,      \* config.ncm_list_limit, the page size
    rlast,      \* the last remote operation: what was sent, what came back,
                \* and what the operation returned or raised
    table       \* the rows <<rank, song id>> of the page rlast returned, if any

remoteVars == <<limit, rlast, table>>

VARIABLES
    sweep,      \* the clear_expired job while it runs step by step: its now_t,
                \* its snapshot self.copy() and the keys it has yet to visit
    gen         \* the generator object values() or items() last returned, and
                \* what its consumer has been given

raceVars == <<sweep, gen>>

otherThanCache == <<loginVars, remoteVars, raceVars>>
otherThanLogin == <<cacheVars, remoteVars, raceVars>>
otherThanRemote == <<cacheVars, loginVars, raceVars>>

vars == <<cache, now, last, wlog,
          pc, disk, conf, session, retry, paths, verifs, calls, status,
          outcome, disk0, flaky, limit, rlast, table, sweep, gen>>

-----------------------------------------------------------------------------
(* Bounds *)

MaxVal == 1
MaxTime == 3
MaxLimit == 2
MaxPage == 3
MaxTraversals == 2
MaxSweeps == 1
MaxIterCalls == 1
\* config.ncm_msg_cache_time, in the clock's unit
CacheTime == 2

-----------------------------------------------------------------------------
(* Python values.  None is the integer -1 and is falsy, as is 0; what      *)
(* dict.get returns for an absent key (None) is the empty tuple, falsy     *)
(* like None, so that it can be compared with the <<create_t, value>>      *)
(* tuples.                                                                 *)

None == 0 - 1
NoneT == <<>>

\* two keys: the operations treat every key alike, a second one shows what
\* an operation on the first leaves alone
Keys == {1, 2}
Values == {None} \cup (0..MaxVal)
Times == 0..MaxTime

Truthy(v) == v # None /\ v # 0
TruthyT(it) == it # NoneT

NoExc == "none"
EmptyDict == <<>>

-----------------------------------------------------------------------------
(* CacheManager *)

\* dict.get(key): the stored tuple, or None
dict_get(d, key) == IF key \in DOMAIN d THEN d[key] ELSE NoneT

\* dict without key
dict_del(d, key) == [k \in (DOMAIN d) \ {key} |-> d[k]]

\* CacheManager.__getitem__: super().__getitem__(key)[1]
getitem(d, key) ==
    IF key \in DOMAIN d
    THEN [exc |-> NoExc, result |-> d[key][2]]
    ELSE [exc |-> "KeyError", result |-> None]

get_falsy_value(d, key, default) ==
    LET it == dict_get(d, key)
    IN  IF TruthyT(it) /\ Truthy(it[2]) THEN it[2] ELSE default

\* CacheManager.get: it = super().get(key); it[1] if it else default
get(d, key, default) ==
    LET it == dict_get(d, key)
    IN  IF TruthyT(it) THEN it[2] ELSE default

setitem_keep_time(d, key, value, t) ==
    (key :> <<IF key \in DOMAIN d THEN d[key][1] ELSE t, value>>) @@ d

\* CacheManager.__setitem__ at time.time() = t
setitem(d, key, value, t) == (key :> <<t, value>>) @@ d

pop_keep(d, key, default) ==
    IF key \in DOMAIN d
    THEN [exc |-> NoExc, result |-> d[key][2], dict |-> d]
    ELSE [exc |-> NoExc, result |-> default, dict |-> d]

\* CacheManager.pop: super().pop(key)[1], default on KeyError
pop(d, key, default) ==
    IF key \in DOMAIN d
    THEN [exc |-> NoExc, result |-> d[key][2], dict |-> dict_del(d, key)]
    ELSE [exc |-> NoExc, result |-> default, dict |-> d]

clear_expired_strict(d, now_t) ==
    LET snapshot == d
        expired == {k \in DOMAIN snapshot : now_t - snapshot[k][1] > CacheTime}
    IN  [k \in (DOMAIN d) \ expired |-> d[k]]

\* CacheManager.clear_expired run to its end at time.time() = now_t
clear_expired(d, now_t) ==
    LET snapshot == d
        expired == {k \in DOMAIN snapshot : now_t - snapshot[k][1] >= CacheTime}
    IN  [k \in (DOMAIN d) \ expired |-> d[k]]

-----------------------------------------------------------------------------
(* The cache's operations *)

NoWrite == <<>>

\* arg: the value set, or the default given; at: when a sweep read the clock
Op(op, key, arg, result, exc, at) ==
    [op |-> op, key |-> key, arg |-> arg, result |-> result, exc |-> exc,
     at |-> at]

InitCache ==
    /\ cache = EmptyDict
    /\ now = 0
    /\ last = Op("init", 0, None, None, NoExc, None)
    /\ wlog = [k \in Keys |-> NoWrite]

\* time passes
Tick ==
    /\ now < MaxTime
    /\ now' = now + 1
    /\ UNCHANGED <<cache, last, wlog>>
    /\ UNCHANGED otherThanCache

Set(k, v) ==
    /\ cache' = setitem(cache, k, v, now)
    /\ last' = Op("set", k, v, None, NoExc, None)
    /\ wlog' = [wlog EXCEPT ![k] =
                   <<IF wlog[k] = NoWrite THEN None ELSE wlog[k][2], now, v>>]
    /\ UNCHANGED now
    /\ UNCHANGED otherThanCache

Get(k, d) ==
    /\ last' = Op("get", k, d, get(cache, k, d), NoExc, None)
    /\ UNCHANGED <<cache, now, wlog>>
    /\ UNCHANGED otherThanCache

GetItem(k) ==
    /\ LET r == getitem(cache, k)
       IN  last' = Op("getitem", k, None, r.result, r.exc, None)
    /\ UNCHANGED <<cache, now, wlog>>
    /\ UNCHANGED otherThanCache

Pop(k, d) ==
    /\ LET r == pop(cache, k, d)
       IN  /\ cache' = r.dict
           /\ last' = Op("pop", k, d, r.result, r.exc, None)
    /\ wlog' = [wlog EXCEPT ![k] = NoWrite]
    /\ UNCHANGED now
    /\ UNCHANGED otherThanCache

\* the scheduler's job
ClearExpired ==
    /\ cache' = clear_expired(cache, now)
    /\ last' = Op("clear_expired", 0, None, None, NoExc, now)
    /\ UNCHANGED <<now, wlog>>
    /\ UNCHANGED otherThanCache

NextCache ==
    \/ Tick
    \/ \E k \in Keys, v \in Values : Set(k, v)
    \/ \E k \in Keys, d \in Values : Get(k, d)
    \/ \E k \in Keys : GetItem(k)
    \/ \E k \in Keys, d \in Values : Pop(k, d)
    \/ ClearExpired

-----------------------------------------------------------------------------
(* login() of data_source.py *)

\* a blob that loads and verifies, one that loads but whose session the
\* remote no longer accepts, and one LoadSessionFromString cannot read
Blobs0 == {"good", "stale", "unloadable"}
Corrupted == {"stale", "unloadable"}

Configs == [phone : BOOLEAN, email : BOOLEAN, password : BOOLEAN,
            password_hash : BOOLEAN, valid : BOOLEAN]

\* the code of success, and some other code
HTTP_OK == 200
OtherCode == HTTP_OK + 1

\* what GetCurrentLoginStatus can do: raise, or answer with a code and an
\* account that is empty or not
NoStatus == [raises |-> FALSE, code |-> None, account |-> FALSE]
StatusReplies ==
    {[raises |-> TRUE, code |-> None, account |-> FALSE]}
    \cup [raises : {FALSE}, code : {HTTP_OK, OtherCode}, account : BOOLEAN]

\* the sessions the remote accepts when it works
ValidSessions == {"good", "fresh", "guest"}

\* (config.ncm_phone or config.ncm_email) and
\* (config.ncm_password or config.ncm_password_hash)
has_credentials(c) == (c.phone \/ c.email) /\ (c.password \/ c.password_hash)

select_path_credentials_first(d, c) ==
    IF has_credentials(c) THEN "FRESH"
    ELSE IF d # "none" THEN "RESTORED"
    ELSE "GUEST"

\* the if / elif / else of login()
select_path(d, c) ==
    IF d # "none" THEN "RESTORED"
    ELSE IF has_credentials(c) THEN "FRESH"
    ELSE "GUEST"

\* the login call of the credentials branch
login_api(c) == IF c.phone THEN "LoginViaCellphone" ELSE "LoginViaEmail"

retry_unchanged(path, r) == r

\* retry = False in the credentials and the guest branch
retry_after_path(path, r) == IF path = "RESTORED" THEN r ELSE FALSE

verify_code_only(r) == ~r.raises /\ r.code = HTTP_OK

\* assert ret["code"] == 200; assert ret["account"], inside the try
verify_ok(r) == ~r.raises /\ r.code = HTTP_OK /\ r.account

unlink_skipped(d) == d

\* if await pth.exists(): await pth.unlink()
unlink_if_exists(d) == IF d # "none" THEN "none" ELSE d

dump_skipped(s) == "none"

\* DumpSessionAsString(GetCurrentSession())
dump_session(s) == s

IdleLogin ==
    /\ pc = "idle"
    /\ disk = "none"
    /\ conf = [phone |-> FALSE, email |-> FALSE, password |-> FALSE,
               password_hash |-> FALSE, valid |-> FALSE]
    /\ session = "none"
    /\ retry = TRUE
    /\ paths = <<>>
    /\ verifs = <<>>
    /\ calls = <<>>
    /\ status = NoStatus
    /\ outcome = "running"
    /\ disk0 = "none"
    /\ flaky = FALSE

\* the driver's on_startup hook calls login(), retry defaulting to True
InitLogin ==
    /\ pc = "start"
    /\ disk \in {"none"} \cup Blobs0
    /\ conf \in Configs
    /\ session = "none"
    /\ retry = TRUE
    /\ paths = <<>>
    /\ verifs = <<>>
    /\ calls = <<>>
    /\ status = NoStatus
    /\ outcome = "running"
    /\ disk0 = disk
    /\ flaky = FALSE

Raise(exc) ==
    /\ pc' = "done"
    /\ outcome' = exc

\* the SESSION_FILE.exists() branch: read the blob, load it, make it current
Restore ==
    /\ pc = "start"
    /\ select_path(disk, conf) = "RESTORED"
    /\ paths' = Append(paths, "RESTORED")
    /\ retry' = retry_after_path("RESTORED", retry)
    /\ IF disk = "unloadable"
       THEN /\ Raise("LoadError")
            /\ UNCHANGED session
       ELSE /\ session' = disk
            /\ pc' = "verify"
            /\ UNCHANGED outcome
    /\ UNCHANGED <<disk, conf, verifs, calls, status, disk0, flaky>>
    /\ UNCHANGED otherThanLogin

\* the credentials branch: the login call, then the session written to disk.
\* The call raises, or returns with a session that is logged in or is not.
FreshLogin(reply) ==
    /\ pc = "start"
    /\ select_path(disk, conf) = "FRESH"
    /\ reply \in (IF conf.valid THEN {"ok"} ELSE {"unauth"}) \cup {"raise"}
    /\ paths' = Append(paths, "FRESH")
    /\ retry' = retry_after_path("FRESH", retry)
    /\ calls' = Append(calls, login_api(conf))
    /\ flaky' = (flaky \/ (conf.valid /\ reply = "raise"))
    /\ IF reply = "raise"
       THEN /\ Raise("LoginError")
            /\ UNCHANGED <<session, disk>>
       ELSE /\ session' = (IF reply = "ok" THEN "fresh" ELSE "unauth")
            /\ disk' = dump_session(session')
            /\ pc' = "verify"
            /\ UNCHANGED outcome
    /\ UNCHANGED <<conf, verifs, status, disk0>>
    /\ UNCHANGED otherThanLogin

\* the else branch: LoginViaAnonymousAccount, nothing written
GuestLogin(reply) ==
    /\ pc = "start"
    /\ select_path(disk, conf) = "GUEST"
    /\ reply \in {"ok", "raise"}
    /\ paths' = Append(paths, "GUEST")
    /\ retry' = retry_after_path("GUEST", retry)
    /\ calls' = Append(calls, "LoginViaAnonymousAccount")
    /\ flaky' = (flaky \/ reply = "raise")
    /\ IF reply = "raise"
       THEN /\ Raise("LoginError")
            /\ UNCHANGED session
       ELSE /\ session' = "guest"
            /\ pc' = "verify"
            /\ UNCHANGED outcome
    /\ UNCHANGED <<disk, conf, verifs, status, disk0>>
    /\ UNCHANGED otherThanLogin

\* the try / except of login(): the status query and, when it fails, the
\* unlink and either the recursive login(retry=False) or the RuntimeError
Verify(reply) ==
    /\ pc = "verify"
    /\ reply \in StatusReplies
    /\ session \notin ValidSessions => ~verify_ok(reply)
    /\ calls' = Append(calls, "GetCurrentLoginStatus")
    /\ status' = reply
    /\ flaky' = (flaky \/ (session \in ValidSessions /\ ~verify_ok(reply)))
    /\ IF verify_ok(reply)
       THEN /\ verifs' = Append(verifs, "ok")
            /\ pc' = "done"
            /\ outcome' = "ok"
            /\ UNCHANGED <<disk, retry>>
       ELSE /\ verifs' = Append(verifs, "fail")
            /\ disk' = unlink_if_exists(disk)
            /\ IF retry
               THEN /\ retry' = FALSE
                    /\ pc' = "start"
                    /\ UNCHANGED outcome
               ELSE /\ Raise("SessionError")
                    /\ UNCHANGED retry
    /\ UNCHANGED <<conf, session, paths, disk0>>
    /\ UNCHANGED otherThanLogin

NextLogin ==
    \/ Restore
    \/ \E reply \in {"ok", "unauth", "raise"} : FreshLogin(reply)
    \/ \E reply \in {"ok", "raise"} : GuestLogin(reply)
    \/ \E reply \in StatusReplies : Verify(reply)

-----------------------------------------------------------------------------
(* The remote calls of data_source.py and providers/song.py *)

\* What a remote call answers.  code: the "code" of the reply, None when the
\* reply has none; has: whether the reply has the key the operation reads
\* ("result", "data", "songs" and "privileges", "program"); n: how many items
\* it lists, None when the list itself is None; priv: whether "privileges"
\* lists the items.
Rets(maxItems) ==
    [code : {None, HTTP_OK, OtherCode}, has : BOOLEAN,
     n : {None} \cup (0..maxItems), priv : BOOLEAN]

NoRet == [code |-> None, has |-> FALSE, n |-> None, priv |-> FALSE]
NoSent == [api |-> "none", limit |-> 0, offset |-> 0]

\* What an operation returns.  kind "nothing": it raised; "None": Python's
\* None; items: the ids of the songs held; isNone: the list is None.
Result(kind, isNone, items, pl) ==
    [kind |-> kind, isNone |-> isNone, items |-> items, pl |-> pl]
NoResult == Result("nothing", TRUE, <<>>, 0)
PyNone == Result("None", TRUE, <<>>, 0)

ROp(op, page, id, sent, ret, exc, result) ==
    [op |-> op, page |-> page, id |-> id, sent |-> sent, ret |-> ret,
     exc |-> exc, result |-> result]

Pages == 0..MaxPage
SongIds == {7}

\* the n items of a reply to a request for song_id, or of a search
ItemsOf(n, first) == IF n = None THEN <<>> ELSE [i \in 1..n |-> first + i - 1]

get_offset_by_page_num_from_zero(page, lim) == lim * page

\* get_offset_by_page_num
get_offset_by_page_num(page, lim) == lim * (page - 1)

\* Python's  offset or 0
or_zero(x) == IF x # 0 THEN x ELSE 0

\* ret.get("code", 200)
ret_code(ret) == IF ret.code = None THEN HTTP_OK ELSE ret.code

ncm_request_unchecked(ret) == NoExc

\* ncm_request: RuntimeError unless the code is 200
ncm_request(ret) == IF ret_code(ret) # HTTP_OK THEN "RuntimeError" ELSE NoExc

\* an operation that reads res[key] of the reply and wraps it
read_key(ret, kind) ==
    IF ncm_request(ret) # NoExc THEN [exc |-> ncm_request(ret), result |-> NoResult]
    ELSE IF ~ret.has THEN [exc |-> "KeyError", result |-> NoResult]
    ELSE [exc |-> NoExc,
          result |-> Result(kind, ret.n = None, ItemsOf(ret.n, 1), 0)]

\* search_song: SongSearchResult(**res["result"])
search_song(ret) == read_key(ret, "SongSearchResult")

\* search_voice: VoiceSearchResult(**res["data"])
search_voice(ret) == read_key(ret, "VoiceSearchResult")

\* get_track_audio: [TrackAudio(**x) for x in res["data"]]
get_track_audio(ret) ==
    IF ret.has /\ ret.n = None /\ ncm_request(ret) = NoExc
    THEN [exc |-> "TypeError", result |-> NoResult]
    ELSE read_key(ret, "TrackAudioList")

\* get_track_lrc: LyricData(**res)
get_track_lrc(ret) ==
    IF ncm_request(ret) # NoExc THEN [exc |-> ncm_request(ret), result |-> NoResult]
    ELSE [exc |-> NoExc, result |-> Result("LyricData", FALSE, <<>>, 0)]

\* get_voice_info: VoiceBaseInfo(**res["program"])
get_voice_info(ret) == read_key(ret, "VoiceBaseInfo")

\* Privilege(id=song_id, pl=128000)
DefaultPl == 128000
\* the pl of a privilege the remote lists
ListedPl == {320000}

\* get_track_info([song_id]): one Song per item of res["songs"], with its
\* privilege or the default one
get_track_info(song_id, ret) ==
    IF ncm_request(ret) # NoExc THEN [exc |-> ncm_request(ret), result |-> NoResult]
    ELSE IF ~ret.has THEN [exc |-> "KeyError", result |-> NoResult]
    ELSE IF ret.n = None THEN [exc |-> "TypeError", result |-> NoResult]
    ELSE [exc |-> NoExc,
          result |-> Result("SongList", FALSE, ItemsOf(ret.n, song_id),
                            IF ret.priv THEN CHOOSE p \in ListedPl : TRUE
                            ELSE DefaultPl)]

\* Song.from_id: info = (await get_track_info([song_id]))[0];
\* if not info: raise ValueError.  A Song is an object, never falsy.
from_id(song_id, ret) ==
    LET r == get_track_info(song_id, ret)
    IN  IF r.exc # NoExc THEN r
        ELSE IF r.result.items = <<>> THEN [exc |-> "IndexError", result |-> NoResult]
        ELSE [exc |-> NoExc,
              result |-> Result("Song", FALSE, <<r.result.items[1]>>, r.result.pl)]

\* SongSearcher.search_by_id: None on ValueError only
search_by_id(song_id, ret) ==
    LET r == from_id(song_id, ret)
    IN  IF r.exc = "ValueError" THEN [exc |-> NoExc, result |-> PyNone] ELSE r

\* SongSearcher._build_search_resp: ValueError if not resp.songs, else the
\* page with a row per song
build_search_resp(resp) ==
    IF resp.isNone \/ resp.items = <<>>
    THEN [exc |-> "ValueError", result |-> NoResult]
    ELSE [exc |-> NoExc, result |-> Result("SearchResp", FALSE, resp.items, 0)]

\* BaseSearcher._calc_index_offset (base.py): the rank of a page's first row,
\* one past the page's offset
calc_index_offset(page, lim) == get_offset_by_page_num(page, lim) + 1

enumerate_restart(items, start) == [i \in 1..Len(items) |-> <<i, items[i]>>]

\* enumerate(resp.songs, start): the rows <<i, x>>, i counted from start
enumerate_from(items, start) ==
    [i \in 1..Len(items) |-> <<start + i - 1, items[i]>>]

\* the rows of the Table of _build_search_resp
build_table(resp, page, lim) ==
    enumerate_from(resp.items, calc_index_offset(page, lim))

IdleRemote ==
    /\ limit = 1
    /\ rlast = ROp("init", 0, 0, NoSent, NoRet, NoExc, NoResult)
    /\ table = <<>>

InitRemote ==
    /\ limit \in 1..MaxLimit
    /\ rlast = ROp("init", 0, 0, NoSent, NoRet, NoExc, NoResult)
    /\ table = <<>>

\* search_song(keyword, page)
SearchSong(page, ret) ==
    /\ LET offset == get_offset_by_page_num(page, limit)
           r == search_song(ret)
       IN  rlast' = ROp("search_song", page, 0,
                        [api |-> "GetSearchResult", limit |-> limit,
                         offset |-> offset],
                        ret, r.exc, r.result)
    /\ table' = <<>>
    /\ UNCHANGED limit
    /\ UNCHANGED otherThanRemote

\* search_voice(keyword, page)
SearchVoice(page, ret) ==
    /\ LET offset == get_offset_by_page_num(page, limit)
           r == search_voice(ret)
       IN  rlast' = ROp("search_voice", page, 0,
                        [api |-> "SearchVoice", limit |-> limit,
                         offset |-> or_zero(offset)],
                        ret, r.exc, r.result)
    /\ table' = <<>>
    /\ UNCHANGED limit
    /\ UNCHANGED otherThanRemote

\* _build_search_resp on the page search_song has just returned
BuildSearchResp ==
    /\ rlast.op = "search_song"
    /\ rlast.exc = NoExc
    /\ LET r == build_search_resp(rlast.result)
       IN  /\ rlast' = ROp("_build_search_resp", rlast.page, 0, rlast.sent,
                            rlast.ret, r.exc, r.result)
           /\ table' = IF r.exc = NoExc
                       THEN build_table(rlast.result, rlast.page, limit)
                       ELSE <<>>
    /\ UNCHANGED limit
    /\ UNCHANGED otherThanRemote

Call(op, api, id, ret, r) ==
    /\ rlast' = ROp(op, 0, id, [api |-> api, limit |-> 0, offset |-> 0], ret,
                    r.exc, r.result)
    /\ table' = <<>>
    /\ UNCHANGED limit
    /\ UNCHANGED otherThanRemote

GetTrackAudio(id, ret) ==
    Call("get_track_audio", "GetTrackAudio", id, ret, get_track_audio(ret))

GetTrackLrc(id, ret) ==
    Call("get_track_lrc", "GetTrackLyrics", id, ret, get_track_lrc(ret))

GetVoiceInfo(id, ret) ==
    Call("get_voice_info", "GetProgramDetail", id, ret, get_voice_info(ret))

GetTrackInfo(id, ret) ==
    Call("get_track_info", "GetTrackDetail", id, ret, get_track_info(id, ret))

FromId(id, ret) ==
    Call("from_id", "GetTrackDetail", id, ret, from_id(id, ret))

SearchById(id, ret) ==
    Call("search_by_id", "GetTrackDetail", id, ret, search_by_id(id, ret))

NextRemote ==
    \/ \E page \in Pages, ret \in Rets(limit) : SearchSong(page, ret)
    \/ \E page \in Pages, ret \in Rets(limit) : SearchVoice(page, ret)
    \/ BuildSearchResp
    \/ \E id \in SongIds, ret \in Rets(1) : GetTrackAudio(id, ret)
    \/ \E id \in SongIds, ret \in Rets(1) : GetTrackLrc(id, ret)
    \/ \E id \in SongIds, ret \in Rets(1) : GetVoiceInfo(id, ret)
    \/ \E id \in SongIds, ret \in Rets(1) : GetTrackInfo(id, ret)
    \/ \E id \in SongIds, ret \in Rets(1) : FromId(id, ret)
    \/ \E id \in SongIds, ret \in Rets(1) : SearchById(id, ret)

-----------------------------------------------------------------------------
(* The sweep and the generators of CacheManager, step by step.  The job is *)
(* a plain function handed to the scheduler, which runs it apart from the  *)
(* callers of the cache; a consumer of values() / items() takes one item   *)
(* at a time.  Each dict operation is one step.                            *)

NoSweep == [st |-> "idle", now_t |-> None, snap |-> EmptyDict, todo |-> {},
            exc |-> NoExc, jobs |-> 0]

\* st: "none", "created" (the body has not run), "running", "exhausted",
\* "failed"; size: the dict's size when the body's for loop began; seen: the
\* keys passed; calls: the calls of values() / items(); runs, open, out,
\* cache0, clean: the traversals the consumer began, whether the last is
\* still going, what it was given, the cache when it began, and whether
\* every next() of it found the cache as it was then
NoGen == [st |-> "none", kind |-> "values", size |-> 0, seen |-> {},
          calls |-> 0, runs |-> 0, open |-> FALSE, out |-> <<>>, cache0 |-> EmptyDict,
          clean |-> TRUE]

IdleRace ==
    /\ sweep = NoSweep
    /\ gen = NoGen

\* now_t - create_t >= config.ncm_msg_cache_time
is_expired(create_t, now_t) == now_t - create_t >= CacheTime

\* now_t = time.time(); self.copy().items()
SweepBegin ==
    /\ sweep.st # "running"
    /\ sweep.jobs < MaxSweeps
    /\ sweep' = [st |-> IF DOMAIN cache = {} THEN "done" ELSE "running",
                 now_t |-> now, snap |-> cache, todo |-> DOMAIN cache,
                 exc |-> NoExc, jobs |-> sweep.jobs + 1]
    /\ UNCHANGED <<cacheVars, gen, loginVars, remoteVars>>

\* one turn of the loop, for key k of the snapshot: del self[k] if the
\* snapshot's create_t is expired; KeyError ends the job if k is gone
SweepStep(k) ==
    /\ sweep.st = "running"
    /\ k \in sweep.todo
    /\ LET left == sweep.todo \ {k}
           after == [sweep EXCEPT !.todo = left,
                                  !.st = IF left = {} THEN "done" ELSE "running"]
       IN  IF ~is_expired(sweep.snap[k][1], sweep.now_t)
           THEN sweep' = after /\ UNCHANGED <<cache, gen>>
           ELSE IF k \in DOMAIN cache
           THEN /\ sweep' = after
                /\ cache' = dict_del(cache, k)
                /\ UNCHANGED gen
           ELSE /\ sweep' = [sweep EXCEPT !.st = "failed", !.exc = "KeyError"]
                /\ UNCHANGED <<cache, gen>>
    /\ UNCHANGED <<now, last, wlog, loginVars, remoteVars>>

\* values() or items(): a generator object, its body not yet run
CallIter(kind) ==
    /\ gen.calls < MaxIterCalls
    /\ gen' = [NoGen EXCEPT !.st = "created", !.kind = kind,
                            !.calls = gen.calls + 1]
    /\ UNCHANGED <<cacheVars, sweep, loginVars, remoteVars>>

\* the consumer begins a traversal of the object it holds: iter() of a
\* generator is the generator itself
GenIter ==
    /\ gen.st # "none"
    /\ ~gen.open
    /\ gen.runs < MaxTraversals
    /\ gen' = [gen EXCEPT !.runs = @ + 1, !.open = TRUE, !.out = <<>>,
                          !.cache0 = cache, !.clean = TRUE]
    /\ UNCHANGED <<cacheVars, sweep, loginVars, remoteVars>>

\* what the body yields for key k: v[1], or k, v[1]
yielded(kind, d, k) == IF kind = "values" THEN <<d[k][2]>> ELSE <<k, d[k][2]>>

\* next() on the generator: the for loop over super().values() / .items(),
\* begun on the first next(); the dict's iterator raises RuntimeError when
\* the dict's size has changed, and a finished generator only stops
GenNext ==
    /\ gen.open
    /\ LET size == IF gen.st = "created" THEN Cardinality(DOMAIN cache) ELSE gen.size
           unseen == (DOMAIN cache) \ gen.seen
           clean == gen.clean /\ cache = gen.cache0
       IN  IF gen.st \in {"exhausted", "failed"}
           THEN gen' = [gen EXCEPT !.open = FALSE, !.clean = clean]
           ELSE IF Cardinality(DOMAIN cache) # size
           THEN gen' = [gen EXCEPT !.st = "failed", !.open = FALSE, !.clean = clean]
           ELSE IF unseen = {}
           THEN gen' = [gen EXCEPT !.st = "exhausted", !.size = size,
                                   !.open = FALSE, !.clean = clean]
           ELSE \E k \in unseen :
                   gen' = [gen EXCEPT !.st = "running", !.size = size,
                                      !.seen = @ \cup {k},
                                      !.clean = clean,
                                      !.out = Append(@, yielded(gen.kind, cache, k))]
    /\ UNCHANGED <<cacheVars, sweep, loginVars, remoteVars>>

\* the sweep taken step by step among the callers of the cache
NextSweep ==
    \/ Tick
    \/ \E k \in Keys, v \in 0..MaxVal : Set(k, v)
    \/ \E k \in Keys : Pop(k, None)
    \/ SweepBegin
    \/ \E k \in Keys : SweepStep(k)

\* a consumer of values() / items() among the callers of the cache and the
\* sweep
NextIter ==
    \/ Tick
    \/ \E k \in Keys : Set(k, MaxVal)
    \/ \E k \in Keys : Pop(k, None)
    \/ ClearExpired
    \/ \E kind \in {"values", "items"} : CallIter(kind)
    \/ GenIter
    \/ GenNext

-----------------------------------------------------------------------------
(* The specifications *)

InitC == InitCache /\ IdleLogin /\ IdleRemote /\ IdleRace
SpecCache == InitC /\ [][NextCache]_vars

InitL == InitCache /\ InitLogin /\ IdleRemote /\ IdleRace
SpecLogin == InitL /\ [][NextLogin]_vars

\* the event loop runs login() on until it returns or raises
SpecLoginFair == SpecLogin /\ WF_vars(NextLogin)

InitR == InitCache /\ IdleLogin /\ InitRemote /\ IdleRace
SpecRemote == InitR /\ [][NextRemote]_vars

\* the cache with the sweep taken step by step
SpecSweep == InitC /\ [][NextSweep]_vars

\* the cache with a consumer of a generator
SpecIter == InitC /\ [][NextIter]_vars

-----------------------------------------------------------------------------
(* Claims about the cache *)

Written(k) == wlog[k] # NoWrite
PrevWriteT(k) == wlog[k][1]
LastWriteT(k) == wlog[k][2]
LastWriteV(k) == wlog[k][3]

\* C1: an entry written at time t and neither rewritten nor popped since is
\* kept, with its value, by every sweep run at a time now with
\* now - t < CacheTime, and is absent after a sweep with now - t >= CacheTime.
C1_Expiry ==
    [][(last'.op = "clear_expired" /\ ClearExpired) =>
         \A k \in Keys : Written(k) =>
            /\ now - LastWriteT(k) < CacheTime =>
                  k \in DOMAIN cache' /\ cache'[k][2] = LastWriteV(k)
            /\ now - LastWriteT(k) >= CacheTime => k \notin DOMAIN cache'
      ]_vars

\* a sweep has removed an entry whose age was exactly CacheTime and kept one
\* whose age was CacheTime - 1
C1_Witness ==
    /\ last.op = "clear_expired"
    /\ \E k1, k2 \in Keys :
          /\ Written(k1) /\ k1 \notin DOMAIN cache
          /\ last.at - LastWriteT(k1) = CacheTime
          /\ Written(k2) /\ k2 \in DOMAIN cache
          /\ last.at - LastWriteT(k2) = CacheTime - 1

InRewriteWindow(k, t) ==
    /\ Written(k)
    /\ PrevWriteT(k) # None
    /\ PrevWriteT(k) < LastWriteT(k)
    /\ PrevWriteT(k) + CacheTime <= t
    /\ t < LastWriteT(k) + CacheTime

\* C2: after set(k, v1) at t1 and set(k, v2) at t2 > t1, a sweep at a time
\* now with t1 + CacheTime <= now < t2 + CacheTime keeps k, and get(k)
\* returns v2.
C2_RewriteResetsAge ==
    [][(last'.op = "clear_expired" /\ ClearExpired) =>
         \A k \in Keys : InRewriteWindow(k, now) =>
            /\ k \in DOMAIN cache'
            /\ \A d \in Values : get(cache', k, d) = LastWriteV(k)
      ]_vars

\* a sweep ran in the window of a rewritten key, which is still there
C2_Witness ==
    /\ last.op = "clear_expired"
    /\ \E k \in Keys : InRewriteWindow(k, last.at) /\ k \in DOMAIN cache

\* C3: get(k) or cache[k] right after set(k, v) returns exactly v, whatever
\* v is, and get(k, d) on an absent key returns d.
C3_SetThenGet ==
    [][LET k == last'.key
           d == last'.arg
       IN  /\ (/\ last.op = "set" /\ last.key = k
               /\ \/ last'.op = "get" /\ Get(k, d)
                  \/ last'.op = "getitem" /\ GetItem(k))
              => last'.result = last.arg /\ last'.exc = NoExc
           /\ (last'.op = "get" /\ Get(k, d) /\ k \notin DOMAIN cache)
              => last'.result = d /\ last'.exc = NoExc
      ]_vars

\* get(k, 1) has returned the stored falsy value 0, not the default
C3_Witness ==
    /\ last.op = "get"
    /\ last.key \in DOMAIN cache
    /\ cache[last.key][2] = 0
    /\ last.arg = 1
    /\ last.result = 0

\* C4: pop(k, d) on a present key returns the stored value and removes k, so
\* that get(k, d2) then returns d2; on an absent key it returns d and raises
\* nothing; either way every other entry is left as it was.
C4_Pop ==
    [][LET k == last'.key
           d == last'.arg
       IN  /\ (last'.op = "pop" /\ Pop(k, d)) =>
                 /\ last'.exc = NoExc
                 /\ last'.result = IF k \in DOMAIN cache THEN cache[k][2] ELSE d
                 /\ k \notin DOMAIN cache'
                 /\ \A d2 \in Values : get(cache', k, d2) = d2
                 /\ \A j \in Keys \ {k} : dict_get(cache', j) = dict_get(cache, j)
           /\ (last.op = "pop" /\ last.key = k /\ last'.op = "get" /\ Get(k, d))
                 => last'.result = d
      ]_vars

\* pop(k, d) has returned a stored value other than d, and the other key's
\* entry is still there
C4_Witness ==
    /\ last.op = "pop"
    /\ last.result # last.arg
    /\ last.key \notin DOMAIN cache
    /\ cache # EmptyDict

-----------------------------------------------------------------------------
(* Claims about login() *)

Fatal == {"LoadError", "LoginError", "SessionError"}

\* C5: with a corrupted blob on disk, valid credentials configured and a
\* remote that works, login() succeeds through the credentials login of a
\* second attempt, and the corrupted blob is gone from disk, whether the
\* blob fails to load or fails its verification.
C5_CorruptedBlobFallback ==
    (pc = "done" /\ disk0 \in Corrupted /\ has_credentials(conf) /\ conf.valid
        /\ ~flaky)
    => /\ outcome = "ok"
       /\ paths = <<"RESTORED", "FRESH">>
       /\ disk # disk0

\* C6 as stated, for a blob that loads and fails its verification: with no
\* credentials configured login() ends fatally after exactly one retry, which
\* takes the guest path.
C6_Original ==
    (pc = "done" /\ disk0 = "stale" /\ ~has_credentials(conf))
    => /\ outcome \in Fatal
       /\ paths = <<"RESTORED", "GUEST">>

\* C6, amended: with a corrupted blob and no credentials login() never makes
\* more than one retry.  If the blob loads and fails its verification, the
\* blob is deleted and exactly one retry is made, which takes the guest path;
\* login() then succeeds as guest if the guest login and its verification
\* succeed and ends fatally if not.  If the blob cannot be loaded, login()
\* ends with the load error and makes no retry.
C6_GuestRetry ==
    (disk0 \in Corrupted /\ ~has_credentials(conf))
    => /\ Len(paths) <= 2
       /\ pc = "done" =>
             IF disk0 = "unloadable"
             THEN outcome = "LoadError" /\ paths = <<"RESTORED">> /\ verifs = <<>>
             ELSE /\ paths = <<"RESTORED", "GUEST">>
                  /\ disk = "none"
                  /\ \/ outcome = "ok" /\ verifs = <<"fail", "ok">>
                     \/ outcome = "SessionError" /\ verifs = <<"fail", "fail">>
                     \/ outcome = "LoginError" /\ verifs = <<"fail">>

\* the retry after a stale blob took the guest path and login() succeeded
C6_Witness ==
    /\ pc = "done"
    /\ disk0 = "stale"
    /\ ~has_credentials(conf)
    /\ paths = <<"RESTORED", "GUEST">>
    /\ outcome = "ok"

AttemptsBounded ==
    /\ Len(paths) <= 2
    /\ Len(paths) = 2 =>
          paths[1] = "RESTORED" /\ verifs[1] = "fail" /\ paths[2] # "RESTORED"
    /\ \A i \in 1..Len(verifs) :
          (verifs[i] = "fail" /\ (paths[i] # "RESTORED" \/ i = 2)) =>
             Len(paths) = i /\ pc = "done" /\ outcome = "SessionError"
    /\ pc = "done" => outcome \in Fatal \cup {"ok"}

\* C7: whatever the disk, the configuration and the remote do, login() ends,
\* successfully or fatally, after at most two attempts; a second attempt
\* follows only a first that took the RESTORED path and failed its
\* verification, never takes the RESTORED path itself, and a verification
\* that fails on a credentials, guest or second attempt is fatal.
C7_AtMostTwoAttempts == [](AttemptsBounded) /\ <>(pc = "done")

\* login() has ended fatally after a second attempt
C7_Witness ==
    /\ pc = "done"
    /\ Len(paths) = 2
    /\ verifs = <<"fail", "fail">>
    /\ outcome = "SessionError"

-----------------------------------------------------------------------------
(* Claims about the remote calls *)

\* the detail call succeeded and lists no item for the id
NoCatalogEntry(ret) == ret_code(ret) = HTTP_OK /\ ret.has /\ ret.n = 0

\* C8: search_by_id(id) for an id with no catalog entry (the detail call
\* succeeds and returns no item for it) returns None and raises nothing.
C8_SearchByIdNotFound ==
    (rlast.op = "search_by_id" /\ NoCatalogEntry(rlast.ret))
    => rlast.exc = NoExc /\ rlast.result = PyNone

DataOps == {"search_song", "search_voice", "get_track_info", "get_track_audio",
            "get_track_lrc", "get_voice_info", "from_id", "search_by_id"}

\* C9: a search, detail, audio-url or lyrics operation whose reply carries a
\* non-success code ends in the RuntimeError of ncm_request and returns
\* nothing, search_by_id included (no None for a failed request); and a
\* search result without items ends in an error of _build_search_resp, not a
\* page.
C9_RemoteFailureSurfaces ==
    /\ (rlast.op \in DataOps /\ ret_code(rlast.ret) # HTTP_OK)
          => rlast.exc = "RuntimeError" /\ rlast.result = NoResult
    /\ (rlast.op = "_build_search_resp" /\ (rlast.ret.n = None \/ rlast.ret.n = 0))
          => rlast.exc = "ValueError" /\ rlast.result = NoResult

\* search_by_id has raised the RuntimeError of a reply with a non-success code
C9_Witness ==
    /\ rlast.op = "search_by_id"
    /\ rlast.ret.code = OtherCode
    /\ rlast.exc = "RuntimeError"

\* C10: for every page p >= 1 the search call, song or voice, is sent the
\* offset limit * (p - 1) and the limit itself; page 1 is sent offset 0.
C10_Offset ==
    (rlast.op \in {"search_song", "search_voice"} /\ rlast.page >= 1)
    => /\ rlast.sent.offset = limit * (rlast.page - 1)
       /\ rlast.sent.limit = limit
       /\ rlast.page = 1 => rlast.sent.offset = 0

\* a voice search for page 3 with page size 2 was sent offset 4
C10_Witness ==
    /\ rlast.op = "search_voice"
    /\ rlast.page = 3
    /\ limit = 2
    /\ rlast.sent.offset = 4

\* C11: in the table built for page p >= 1 with page size limit, the i-th row
\* has rank limit * (p - 1) + i: the ranks of a page are consecutive, and
\* page p + 1 starts one past the last possible rank of page p.
C11_RankContinuity ==
    (rlast.op = "_build_search_resp" /\ rlast.exc = NoExc /\ rlast.page >= 1)
    => /\ Len(table) = Len(rlast.result.items)
       /\ \A i \in 1..Len(table) :
             /\ table[i][1] = limit * (rlast.page - 1) + i
             /\ table[i][2] = rlast.result.items[i]
       /\ rlast.page >= 2 =>
             table[1][1] = (limit * (rlast.page - 2) + limit) + 1

\* page 2 of page size 2 has two rows, ranked 3 and 4
C11_Witness ==
    /\ rlast.op = "_build_search_resp"
    /\ rlast.page = 2
    /\ limit = 2
    /\ Len(table) = 2
    /\ table[1][1] = 3
    /\ table[2][1] = 4

\* C17: Song.from_id(id) for an id with no catalog entry fails with the
\* ValueError that search_by_id recovers from, and with no other error.
C17_FromIdNotFound ==
    (rlast.op = "from_id" /\ NoCatalogEntry(rlast.ret))
    => rlast.exc = "ValueError"

\* C19: a search, song or voice, called with a page below 1 is rejected and
\* sends no search call with a negative offset.
C19_PageBelowOneRejected ==
    (rlast.op \in {"search_song", "search_voice"} /\ rlast.page < 1)
    => /\ rlast.exc # NoExc
       /\ rlast.sent.offset >= 0

-----------------------------------------------------------------------------
(* More claims about login() *)

LoginCalls == {"LoginViaCellphone", "LoginViaEmail", "LoginViaAnonymousAccount"}
NewCalls == SubSeq(calls', Len(calls) + 1, Len(calls'))
Configured ==
    (conf.phone \/ conf.email) /\ (conf.password \/ conf.password_hash)

\* C14: an attempt takes exactly one path, by strict priority.  With a blob on
\* disk it loads and activates the blob and makes no remote login call,
\* credentials or not; else with (phone or email) and (password or hash) it
\* makes exactly one login call, by phone if a phone is configured and by
\* email if not, and writes the resulting session to disk; else it makes the
\* guest login and writes nothing.
C14_PathPriority ==
    [][(pc = "start" /\ pc' # "start") =>
         /\ Len(paths') = Len(paths) + 1
         /\ IF disk # "none"
            THEN /\ paths'[Len(paths')] = "RESTORED"
                 /\ NewCalls = <<>>
                 /\ disk' = disk
                 /\ pc' = "verify" => session' = disk
            ELSE IF Configured
            THEN /\ paths'[Len(paths')] = "FRESH"
                 /\ NewCalls =
                       <<IF conf.phone THEN "LoginViaCellphone" ELSE "LoginViaEmail">>
                 /\ pc' = "verify" => disk' # "none" /\ disk' = session'
            ELSE /\ paths'[Len(paths')] = "GUEST"
                 /\ NewCalls = <<"LoginViaAnonymousAccount">>
                 /\ disk' = "none"
      ]_vars

\* with a blob on disk and credentials configured, the blob was restored and
\* no login call was made
C14_Witness ==
    /\ pc = "verify"
    /\ disk0 = "good"
    /\ Configured
    /\ paths = <<"RESTORED">>
    /\ session = "good"
    /\ calls = <<>>

StatusGood == ~status.raises /\ status.code = HTTP_OK /\ status.account

\* C15: login() returns successfully only if the last remote call was the
\* status query of the last attempt and it answered code 200 with a
\* non-empty account; a query that raises, answers another code or an empty
\* account makes the attempt's verification fail.
C15_VerifiedSuccess ==
    /\ outcome = "ok" =>
          /\ StatusGood
          /\ calls # <<>> /\ calls[Len(calls)] = "GetCurrentLoginStatus"
          /\ Len(verifs) = Len(paths) /\ verifs[Len(verifs)] = "ok"
    /\ (verifs # <<>> /\ Len(verifs) = Len(paths) /\ ~StatusGood) =>
          verifs[Len(verifs)] = "fail" /\ outcome # "ok"

\* the status query answered code 200 with an empty account, and login()
\* ended fatally
C15_Witness ==
    /\ pc = "done"
    /\ ~status.raises /\ status.code = HTTP_OK /\ ~status.account
    /\ outcome = "SessionError"

\* C16: right after a failed verification, before the retry or the fatal
\* error, no blob is on disk, the one a credentials login has just written
\* included; so no blob exists when login() ends with the session error.
C16_BlobDeletedOnFailure ==
    /\ (verifs # <<>> /\ Len(verifs) = Len(paths)
          /\ verifs[Len(verifs)] = "fail") => disk = "none"
    /\ outcome = "SessionError" => disk = "none"

\* a credentials login wrote its blob, failed the verification and ended
\* fatally with no blob left
C16_Witness ==
    /\ pc = "done"
    /\ paths = <<"FRESH">>
    /\ session \in {"fresh", "unauth"}
    /\ verifs = <<"fail">>
    /\ outcome = "SessionError"
    /\ disk = "none"

\* C20: when login() returns successfully the blob matches how the session
\* was obtained: restored, the blob is the one found; from a credentials
\* login, the blob is the dump of the session that login produced; from a
\* guest login, first attempt or retry, there is no blob.
C20_BlobMatchesSession ==
    outcome = "ok" =>
       LET path == paths[Len(paths)]
       IN  /\ path = "RESTORED" => disk # "none" /\ disk = disk0 /\ session = disk0
           /\ path = "FRESH" => disk = "fresh" /\ session = "fresh"
           /\ path = "GUEST" => disk = "none" /\ session = "guest"

\* login() succeeded through the credentials login of a retry, with the new
\* blob on disk in place of the stale one
C20_Witness ==
    /\ outcome = "ok"
    /\ disk0 = "stale"
    /\ paths = <<"RESTORED", "FRESH">>
    /\ disk = "fresh"

\* C12: a set(k, v) that takes effect after a running clear_expired() took
\* its snapshot is not undone by that sweep: once the sweep has finished, a
\* key written at or after the sweep's now_t, and not popped since, is
\* present with the value and the timestamp of its last set.
C12_LastWriterWins ==
    \A k \in Keys :
        (sweep.st = "done" /\ Written(k) /\ LastWriteT(k) >= sweep.now_t)
            => /\ k \in DOMAIN cache
               /\ cache[k] = <<LastWriteT(k), LastWriteV(k)>>

\* C13: whatever is interleaved with a sweep or with a consumer stepping
\* through values() / items(), neither the sweep nor the generator ends in
\* an error.
C13_SweepSafeAmongReads ==
    /\ sweep.st # "failed"
    /\ gen.st # "failed"

\* C18: a traversal of the object values() / items() returned, the first or
\* a later one, that ran to its end without an error and found the cache
\* the same at every step, has given every entry of that cache exactly
\* once, as its value or as its key and value.
C18_Restartable ==
    (gen.runs >= 1 /\ ~gen.open /\ gen.st # "failed" /\ gen.clean
        /\ cache = gen.cache0)
        => /\ Len(gen.out) = Cardinality(DOMAIN cache)
           /\ \A k \in DOMAIN cache :
                 \E i \in 1..Len(gen.out) : gen.out[i] = yielded(gen.kind, cache, k)

=============================================================================
